---- MODULE Spec2Model ----
(***************************************************************************)
(* Model of openapi_to_click: the pydantic records of src/main.py          *)
(* (TypeSchema, Parameter, OperationResponse, Operation, OpenAPISpec),     *)
(* extract_operations, snake_case, and the two generate_cli commands       *)
(* (src/main.py and src/app/main.py).                                      *)
(*                                                                         *)
(* Encoding of Python values:                                              *)
(*   - a raw dict whose order is irrelevant is a TLA+ function; a key is   *)
(*     present iff it is in the DOMAIN (d.get(k, dflt) is Get(d, k, dflt)) *)
(*   - a raw dict whose order matters (paths, a path item, responses,      *)
(*     content) is a sequence of <<key, value>> pairs with distinct keys   *)
(*   - an Optional value is <<>> for None and <<v>> for a value            *)
(*   - a string that the code inspects character by character (a path, a   *)
(*     status code, the openapi version, a file name) is a sequence of     *)
(*     one-character strings; every other string is a TLA+ string          *)
(*   - a call that may raise returns [ok |-> TRUE, value |-> v] or         *)
(*     [ok |-> FALSE, error |-> kind, msg |-> message]                     *)
(***************************************************************************)
EXTENDS Integers, Sequences, FiniteSets, TLC

\* ------------------------------------------------------------------------
\* Bounds of the model
\* ------------------------------------------------------------------------
MaxPathLen == 4
MaxVersionLen == 3
MaxStatusLen == 3
MaxParams == 3
MaxResponses == 2
MaxPaths == 2

\* ------------------------------------------------------------------------
\* Python helpers
\* ------------------------------------------------------------------------
None == <<>>

Some(v) == <<v>>

Get(d, k, default) == IF k \in DOMAIN d THEN d[k] ELSE default

GetOpt(d, k) == IF k \in DOMAIN d THEN <<d[k]>> ELSE <<>>

Ok(v) == [ok |-> TRUE, value |-> v]

Raise(kind, message) == [ok |-> FALSE, error |-> kind, msg |-> message]

DistinctKeys(od) == \A i, j \in 1..Len(od) : od[i][1] = od[j][1] => i = j

SeqsUpTo(S, n) == UNION {[1..k -> S] : k \in 0..n}

\* str.startswith(prefix)
StartsWith(s, prefix) ==
    /\ Len(s) >= Len(prefix)
    /\ SubSeq(s, 1, Len(prefix)) = prefix

\* str.endswith(suffix)
EndsWith(s, suffix) ==
    /\ Len(s) >= Len(suffix)
    /\ SubSeq(s, Len(s) - Len(suffix) + 1, Len(s)) = suffix

UpperChars == {"A", "B", "I"}

LowerChars == {"a", "b", "d", "i", "m", "s", "t", "e", "u", "r"}

DigitChars == {"0", "1", "2", "3", "4", "5", "6", "7", "8", "9"}

\* str.lower() on one character
LowerChar(c) ==
    CASE c = "A" -> "a"
      [] c = "B" -> "b"
      [] c = "I" -> "i"
      [] OTHER -> c

Lower(s) == [i \in 1..Len(s) |-> LowerChar(s[i])]

RECURSIVE LStrip(_, _)
LStrip(s, c) == IF s # <<>> /\ Head(s) = c THEN LStrip(Tail(s), c) ELSE s

RECURSIVE RStrip(_, _)
RStrip(s, c) ==
    IF s # <<>> /\ s[Len(s)] = c THEN RStrip(SubSeq(s, 1, Len(s) - 1), c) ELSE s

\* str.strip(c) for a single character c
Strip(s, c) == RStrip(LStrip(s, c), c)

\* str.replace(old, new) for single characters
Replace(s, old, new) == [i \in 1..Len(s) |-> IF s[i] = old THEN new ELSE s[i]]

\* length of the greedy run [a-z]* starting at position i of s
RECURSIVE LowerRun(_, _)
LowerRun(s, i) ==
    IF i <= Len(s) /\ s[i] \in LowerChars THEN 1 + LowerRun(s, i + 1) ELSE 0

\* re.sub('(.)([A-Z][a-z]+)', r'\1_\2', s), scanning from position i:
\* leftmost non-overlapping matches, the scan resumes after each match
RECURSIVE SubCamel1(_, _)
SubCamel1(s, i) ==
    IF i > Len(s) THEN <<>>
    ELSE IF /\ i + 2 <= Len(s)
            /\ s[i + 1] \in UpperChars
            /\ LowerRun(s, i + 2) >= 1
         THEN LET n == LowerRun(s, i + 2)
              IN  <<s[i], "_">> \o SubSeq(s, i + 1, i + 1 + n) \o SubCamel1(s, i + 2 + n)
         ELSE <<s[i]>> \o SubCamel1(s, i + 1)

\* re.sub('([a-z0-9])([A-Z])', r'\1_\2', s), scanning from position i
RECURSIVE SubCamel2(_, _)
SubCamel2(s, i) ==
    IF i > Len(s) THEN <<>>
    ELSE IF /\ i + 1 <= Len(s)
            /\ s[i] \in LowerChars \cup DigitChars
            /\ s[i + 1] \in UpperChars
         THEN <<s[i], "_", s[i + 1]>> \o SubCamel2(s, i + 2)
         ELSE <<s[i]>> \o SubCamel2(s, i + 1)

snake_case(s) == Lower(SubCamel2(SubCamel1(s, 1), 1))

\* the name expression of extract_operations:
\* snake_case(path.strip('/').replace('/', '_'))
operation_name(path) == snake_case(Replace(Strip(path, "/"), "/", "_"))

\* int(v) for a string v: surrounding blanks are ignored, then an optional
\* sign, then decimal digits (digit-group underscores are outside the
\* alphabet of the model)
DigitValue(c) ==
    CASE c = "0" -> 0 [] c = "1" -> 1 [] c = "2" -> 2 [] c = "3" -> 3
      [] c = "4" -> 4 [] c = "5" -> 5 [] c = "6" -> 6 [] c = "7" -> 7
      [] c = "8" -> 8 [] c = "9" -> 9

RECURSIVE DigitsValue(_)
DigitsValue(s) ==
    IF s = <<>> THEN 0
    ELSE 10 * DigitsValue(SubSeq(s, 1, Len(s) - 1)) + DigitValue(s[Len(s)])

AllDigits(s) == s # <<>> /\ \A i \in 1..Len(s) : s[i] \in DigitChars

ParseInt(v) ==
    LET t == Strip(v, " ")
    IN  IF t # <<>> /\ Head(t) \in {"+", "-"}
        THEN IF AllDigits(Tail(t))
             THEN Ok(IF Head(t) = "-" THEN 0 - DigitsValue(Tail(t)) ELSE DigitsValue(Tail(t)))
             ELSE Raise("ValueError", "invalid literal for int()")
        ELSE IF AllDigits(t)
             THEN Ok(DigitsValue(t))
             ELSE Raise("ValueError", "invalid literal for int()")

\* ------------------------------------------------------------------------
\* The pydantic records of src/main.py
\* ------------------------------------------------------------------------
SchemaTypes == {"string", "number", "integer", "boolean", "array", "object", "null"}

ParameterTypes == {"string", "number", "integer", "boolean", "array", "object"}

ParameterLocations == {"path", "query", "header", "cookie"}

OperationMethods == {"get", "post", "put", "delete", "patch", "head", "options"}

\* the verbs of Operation.validate_method used for the extraction filter
ExtractedMethodsAllVerbs == {"get", "post", "put", "delete", "patch", "head", "options"}

ExtractedMethods == {"get", "post", "put", "delete", "patch"}

TypesWithFormats == {"string", "integer", "number"}

\* the type_formats table of TypeSchema.validate_format
type_formats(t) ==
    CASE t = "string" -> {"date", "date-time", "password", "byte", "binary",
                          "email", "uuid", "uri", "hostname"}
      [] t = "integer" -> {"int32", "int64"}
      [] t = "number" -> {"float", "double"}

\* TypeSchema.validate_schema_type: TRUE iff the validator does not raise
validate_schema_type(v) == v \in SchemaTypes

\* validate_format looking the type up with an empty default set, so that a
\* type without registered formats accepts no format
validate_format_strict(v, data) ==
    IF v # None
    THEN LET schema_type == GetOpt(data, "type")
         IN  /\ schema_type # None
             /\ schema_type[1] \in TypesWithFormats
             /\ v[1] \in type_formats(schema_type[1])
    ELSE TRUE

\* TypeSchema.validate_format: v is the Optional format, data the fields
\* validated so far (it holds "type" only if the type passed validation)
validate_format(v, data) ==
    IF v # None
    THEN LET schema_type == GetOpt(data, "type")
         IN  ~ (/\ schema_type # None
                /\ schema_type[1] \in TypesWithFormats
                /\ v[1] \notin type_formats(schema_type[1]))
    ELSE TRUE

\* TypeSchema(type=..., format=..., default=..., enum=...): every argument
\* is Optional, None standing for a keyword that is missing or None
TypeSchema(type, format, default, enum) ==
    LET type_ok == type # None /\ validate_schema_type(type[1])
        data == IF type_ok THEN [type |-> type[1]] ELSE << >>
        format_ok == validate_format(format, data)
    IN  IF ~ type_ok
        THEN IF type = None
             THEN Raise("ValidationError", "type: Field required")
             ELSE Raise("ValidationError", "Schema type must be one of valid_types")
        ELSE IF ~ format_ok
             THEN Raise("ValidationError", "Invalid format for type")
             ELSE Ok([type |-> type[1], format |-> format,
                      default |-> default, enum |-> enum])

\* TypeSchema(**schema_data)
TypeSchemaFromDict(schema_data) ==
    TypeSchema(GetOpt(schema_data, "type"), GetOpt(schema_data, "format"),
               GetOpt(schema_data, "default"), GetOpt(schema_data, "enum"))

\* Parameter.validate_type
validate_type(v) == v \in ParameterTypes

\* Parameter.validate_parameter_in
validate_parameter_in(v) == v \in ParameterLocations

\* Parameter(name=..., description=..., required=..., type=..., default=...,
\*           in_=..., schema_=..., example=...)
Parameter(name, description, required, type, default, in_, schema_, example) ==
    IF ~ validate_type(type)
    THEN Raise("ValidationError", "Type must be one of valid_types")
    ELSE IF ~ validate_parameter_in(in_)
         THEN Raise("ValidationError", "Parameter location must be one of valid_locations")
         ELSE Ok([name |-> name, description |-> description, required |-> required,
                  type |-> type, default |-> default, in_ |-> in_,
                  schema_ |-> schema_, example |-> example])

\* validate_status_code without the range test
validate_status_code_numeric_only(v) == ParseInt(v).ok

\* OperationResponse.validate_status_code
validate_status_code(v) ==
    LET code == ParseInt(v)
    IN  code.ok /\ 100 <= code.value /\ code.value <= 599

\* OperationResponse(status_code=..., description=..., content_type=..., schema_=...)
OperationResponse(status_code, description, content_type, schema_) ==
    IF ~ validate_status_code(status_code)
    THEN Raise("ValidationError", "Status code must be a valid HTTP status code (100-599)")
    ELSE Ok([status_code |-> status_code, description |-> description,
             content_type |-> content_type, schema_ |-> schema_])

\* str.lower() on a method name
method_lower(v) ==
    CASE v = "GET" -> "get"
      [] v = "Post" -> "post"
      [] v = "HEAD" -> "head"
      [] OTHER -> v

\* Operation.validate_method
validate_method(v) == method_lower(v) \in OperationMethods

\* Operation(method=..., path=..., tag=..., ...); responses is the ordered
\* dict of OperationResponse records as a sequence of <<key, value>> pairs
Operation(method, path, tag, summary, description, snake_case_name, path_parameters, query_parameters, body_required, body_schema, responses, deprecated) ==
    IF ~ validate_method(method)
    THEN Raise("ValidationError", "Method must be one of valid_methods")
    ELSE Ok([method |-> method_lower(method), path |-> path, tag |-> tag,
             summary |-> summary, description |-> description,
             snake_case_name |-> snake_case_name,
             path_parameters |-> path_parameters,
             query_parameters |-> query_parameters,
             body_required |-> body_required, body_schema |-> body_schema,
             responses |-> responses, deprecated |-> deprecated])

\* the models whose Config sets frozen = True; the Config of TypeSchema
\* sets extra = "allow" only
FrozenModels == {"Parameter", "OperationResponse", "Operation"}

\* instance.field = value on an instance of the model: a frozen model
\* raises, any other model stores the value without validating it
setattr(model, instance, field, value) ==
    IF model \in FrozenModels
    THEN Raise("ValidationError", "Instance is frozen")
    ELSE Ok([instance EXCEPT ![field] = value])

\* the last 2xx response instead of the first
RECURSIVE LastSuccessful(_, _)
LastSuccessful(responses, i) ==
    IF i < 1 THEN None
    ELSE IF StartsWith(responses[i][1], <<"2">>)
         THEN Some(responses[i][2])
         ELSE LastSuccessful(responses, i - 1)

get_last_successful_response(self) == LastSuccessful(self.responses, Len(self.responses))

\* Operation.get_successful_response: the value of the first item of
\* self.responses, from position i on, whose key starts with '2'
RECURSIVE FirstSuccessful(_, _)
FirstSuccessful(responses, i) ==
    IF i > Len(responses) THEN None
    ELSE IF StartsWith(responses[i][1], <<"2">>)
         THEN Some(responses[i][2])
         ELSE FirstSuccessful(responses, i + 1)

get_successful_response(self) == FirstSuccessful(self.responses, 1)

\* check_openapi_version testing the major digit only
check_openapi_version_major_only(value) == StartsWith(value, <<"3">>)

\* OpenAPISpec.check_openapi_version
check_openapi_version(value) == StartsWith(value, <<"3", ".">>)

\* OpenAPISpec(**spec_data) of both src/main.py and src/app/main.py:
\* openapi, info and paths are required fields
OpenAPISpec(spec_data) ==
    IF ~ {"openapi", "info", "paths"} \subseteq DOMAIN spec_data
    THEN Raise("ValidationError", "Field required")
    ELSE IF ~ check_openapi_version(spec_data.openapi)
         THEN Raise("ValidationError", "Only OpenAPI 3.x specifications are supported.")
         ELSE Ok([openapi |-> spec_data.openapi, info |-> spec_data.info,
                  paths |-> spec_data.paths, operations |-> << >>])

\* ------------------------------------------------------------------------
\* extract_operations (src/main.py)
\* ------------------------------------------------------------------------
EmptyDict == << >>

\* one iteration of "for param in parameters": the Parameter built from one
\* raw parameter object, or the exception raised
NormalizeParameter(param) ==
    LET schema == Get(param, "schema", EmptyDict)
        type_schema == TypeSchema(Some(Get(schema, "type", "string")),
                                  GetOpt(schema, "format"),
                                  GetOpt(schema, "default"),
                                  GetOpt(schema, "enum"))
    IN  IF ~ type_schema.ok THEN type_schema
        ELSE IF "name" \notin DOMAIN param THEN Raise("KeyError", "name")
        ELSE IF "in" \notin DOMAIN param THEN Raise("KeyError", "in")
        ELSE Parameter(param.name,
                       Get(param, "description", ""),
                       Get(param, "required", FALSE),
                       type_schema.value.type,
                       type_schema.value.default,
                       param["in"],
                       Some(type_schema.value),
                       GetOpt(param, "example"))

\* the parameter loop with "else" in place of "elif param['in'] == 'query'"
RECURSIVE ExtractParametersElseQuery(_, _, _, _)
ExtractParametersElseQuery(parameters, i, path_params, query_params) ==
    IF i > Len(parameters)
    THEN Ok([path_params |-> path_params, query_params |-> query_params])
    ELSE LET param_obj == NormalizeParameter(parameters[i])
         IN  IF ~ param_obj.ok THEN param_obj
             ELSE IF parameters[i]["in"] = "path"
                  THEN ExtractParametersElseQuery(parameters, i + 1,
                           Append(path_params, param_obj.value), query_params)
                  ELSE ExtractParametersElseQuery(parameters, i + 1,
                           path_params, Append(query_params, param_obj.value))

\* the loop "for param in parameters" from position i on, with the two
\* lists built so far
RECURSIVE ExtractParameters(_, _, _, _)
ExtractParameters(parameters, i, path_params, query_params) ==
    IF i > Len(parameters)
    THEN Ok([path_params |-> path_params, query_params |-> query_params])
    ELSE LET param_obj == NormalizeParameter(parameters[i])
         IN  IF ~ param_obj.ok THEN param_obj
             ELSE IF parameters[i]["in"] = "path"
                  THEN ExtractParameters(parameters, i + 1,
                                         Append(path_params, param_obj.value), query_params)
                  ELSE IF parameters[i]["in"] = "query"
                       THEN ExtractParameters(parameters, i + 1,
                                              path_params, Append(query_params, param_obj.value))
                       ELSE ExtractParameters(parameters, i + 1, path_params, query_params)

\* one iteration of "for status_code, response_data in ...items()"
NormalizeResponse(status_code, response_data) ==
    LET content == Get(response_data, "content", EmptyDict)
        content_type == IF content = << >> THEN None ELSE Some(content[1][1])
        has_content == content_type # None /\ content_type[1] # ""
        schema == IF has_content
                  THEN TypeSchemaFromDict(Get(content[1][2], "schema", EmptyDict))
                  ELSE Ok(None)
    IN  IF ~ schema.ok THEN schema
        ELSE OperationResponse(status_code,
                               Get(response_data, "description", ""),
                               content_type,
                               IF has_content THEN Some(schema.value) ELSE None)

\* responses[status_code] = value on the ordered dict
DictSet(od, k, v) ==
    IF \E i \in 1..Len(od) : od[i][1] = k
    THEN [i \in 1..Len(od) |-> IF od[i][1] = k THEN <<k, v>> ELSE od[i]]
    ELSE Append(od, <<k, v>>)

\* the loop over operation.get('responses', {}).items() from position i on
RECURSIVE ExtractResponses(_, _, _)
ExtractResponses(raw, i, responses) ==
    IF i > Len(raw) THEN Ok(responses)
    ELSE LET r == NormalizeResponse(raw[i][1], raw[i][2])
         IN  IF ~ r.ok THEN r
             ELSE ExtractResponses(raw, i + 1, DictSet(responses, raw[i][1], r.value))

\* the body of the inner loop for one (path, method, operation) with
\* method among the extracted verbs: the Operation built, or the exception
ExtractOperation(path, method, operation) ==
    LET params == ExtractParameters(Get(operation, "parameters", << >>), 1, << >>, << >>)
        responses == ExtractResponses(Get(operation, "responses", EmptyDict), 1, << >>)
        request_body == Get(operation, "requestBody", EmptyDict)
        body_required == Get(request_body, "required", FALSE)
        body_content == Get(request_body, "content", EmptyDict)
        body_schema == IF "application/json" \in DOMAIN body_content
                       THEN TypeSchemaFromDict(
                                Get(body_content["application/json"], "schema", EmptyDict))
                       ELSE Ok(None)
    IN  IF ~ params.ok THEN params
        ELSE IF ~ responses.ok THEN responses
        ELSE IF ~ body_schema.ok THEN body_schema
        ELSE Operation(method,
                       path,
                       Get(operation, "tags", <<"default">>),
                       Get(operation, "summary", ""),
                       Get(operation, "description", ""),
                       operation_name(path),
                       params.value.path_params,
                       params.value.query_params,
                       body_required,
                       IF "application/json" \in DOMAIN body_content
                       THEN Some(body_schema.value) ELSE None,
                       responses.value,
                       Get(operation, "deprecated", FALSE))

\* the inner loop with the failing operation skipped instead of the
\* exception propagating
RECURSIVE ExtractPathItemSkipInvalid(_, _, _, _)
ExtractPathItemSkipInvalid(path, path_item, j, operations) ==
    IF j > Len(path_item) THEN Ok(operations)
    ELSE IF path_item[j][1] \in ExtractedMethods
         THEN LET op == ExtractOperation(path, path_item[j][1], path_item[j][2])
              IN  IF ~ op.ok
                  THEN ExtractPathItemSkipInvalid(path, path_item, j + 1, operations)
                  ELSE ExtractPathItemSkipInvalid(path, path_item, j + 1,
                                                  Append(operations, op.value))
         ELSE ExtractPathItemSkipInvalid(path, path_item, j + 1, operations)

\* the inner loop "for method, operation in path_item.items()" from
\* position j on; operations is the list built so far
RECURSIVE ExtractPathItem(_, _, _, _)
ExtractPathItem(path, path_item, j, operations) ==
    IF j > Len(path_item) THEN Ok(operations)
    ELSE IF path_item[j][1] \in ExtractedMethods
         THEN LET op == ExtractOperation(path, path_item[j][1], path_item[j][2])
              IN  IF ~ op.ok THEN op
                  ELSE ExtractPathItem(path, path_item, j + 1, Append(operations, op.value))
         ELSE ExtractPathItem(path, path_item, j + 1, operations)

\* the outer loop "for path, path_item in spec['paths'].items()" from
\* position i on
RECURSIVE ExtractPaths(_, _, _)
ExtractPaths(paths, i, operations) ==
    IF i > Len(paths) THEN Ok(operations)
    ELSE LET r == ExtractPathItem(paths[i][1], paths[i][2], 1, operations)
         IN  IF ~ r.ok THEN r
             ELSE ExtractPaths(paths, i + 1, r.value)

\* extract_operations(spec): Ok(the list) or the exception that propagates
extract_operations(spec) ==
    IF "paths" \notin DOMAIN spec THEN Raise("KeyError", "paths")
    ELSE ExtractPaths(spec.paths, 1, << >>)

\* ------------------------------------------------------------------------
\* Raw documents handed to the program
\* ------------------------------------------------------------------------
Document(openapi, paths) ==
    [openapi |-> openapi, info |-> [title |-> "Test API"], paths |-> paths]

V30 == <<"3", ".", "0">>

OkResponse == << <<"2", "0", "0">>, [description |-> "Successful response"]>>

\* a raw operation
RawOperation(parameters, responses) ==
    [summary |-> "Test endpoint", parameters |-> parameters, responses |-> responses]

\* a document with the single operation get of /test
SingleOperation(operation) ==
    Document(V30, << << <<"/", "t", "e", "s", "t">>, << <<"get", operation>> >> >> >>)

\* documents that vary the openapi version
VersionChars == {"3", ".", "2", "0"}

VersionDocuments ==
    {Document(v, << >>) : v \in SeqsUpTo(VersionChars, MaxVersionLen)}

\* documents that vary the path template of their single operation
PathChars == {"/", "a", "B", "1", "{", "-"}

PathDocuments ==
    {Document(V30, << <<p, << <<"get", RawOperation(<< >>, <<OkResponse>>)>> >> >> >>) :
        p \in SeqsUpTo(PathChars, MaxPathLen)}

\* documents that vary the parameters of their single operation
RawParameters ==
    { [name |-> "itemId", in |-> "path", required |-> TRUE],
      [name |-> "userId", in |-> "path", schema |-> [type |-> "integer", format |-> "int64"]],
      [name |-> "limit", in |-> "query", default |-> "5",
       schema |-> [type |-> "integer", default |-> "10"]],
      [name |-> "sort", in |-> "query", schema |-> [enum |-> <<"asc", "desc">>]],
      [name |-> "X-Trace", in |-> "header"],
      [name |-> "session", in |-> "cookie"],
      [name |-> "", in |-> "query"],
      [in |-> "query"],
      [name |-> "page"],
      [name |-> "payload", in |-> "body"],
      [name |-> "when", in |-> "query", schema |-> [type |-> "string", format |-> "int32"]],
      [name |-> "nothing", in |-> "query", schema |-> [type |-> "null"]] }

ParameterDocuments ==
    {SingleOperation(RawOperation(ps, <<OkResponse>>)) :
        ps \in SeqsUpTo(RawParameters, MaxParams)}

\* documents that vary the (type, format) pair of a parameter schema
RawTypes == SchemaTypes \cup {"file"}

RawFormats == {"date", "date-time", "password", "byte", "binary", "email", "uuid",
               "uri", "hostname", "int32", "int64", "float", "double", "custom"}

RawSchemas ==
    {[type |-> t, format |-> f] : t \in RawTypes, f \in RawFormats}
    \cup {[type |-> t] : t \in RawTypes}
    \cup {[format |-> f] : f \in RawFormats}
    \cup {EmptyDict}

SchemaDocuments ==
    {SingleOperation(RawOperation(
        << [name |-> "p", in |-> "query", schema |-> sch] >>, <<OkResponse>>)) :
        sch \in RawSchemas}

\* documents that vary the status-code key of a single response
StatusChars == {"0", "1", "5", "6", "9", "x"}

StatusDocuments ==
    {SingleOperation(RawOperation(<< >>, << <<k, [description |-> "r"]>> >>)) :
        k \in SeqsUpTo(StatusChars, MaxStatusLen)}

\* documents that vary the responses mapping of their single operation
ResponseKeys == { <<"2", "0", "0">>, <<"2", "0", "1">>, <<"4", "0", "4">>,
                  <<"d", "e", "f", "a", "u", "l", "t">>, <<"9", "9", "9">> }

RawResponses ==
    { [description |-> "plain"],
      [description |-> "json",
       content |-> << <<"application/json", [schema |-> [type |-> "array"]]>>,
                      <<"text/plain", [schema |-> [type |-> "string"]]>> >>],
      [content |-> << <<"application/json", EmptyDict>> >>] }

ResponseMappings ==
    {r \in SeqsUpTo(ResponseKeys \X RawResponses, MaxResponses) : DistinctKeys(r)}

ResponseDocuments ==
    {SingleOperation(RawOperation(<< >>, r)) : r \in ResponseMappings}

\* documents that vary the requestBody of their single operation
RawRequestBodies ==
    { EmptyDict,
      [required |-> TRUE,
       content |-> ("application/json" :> [schema |-> [type |-> "object"]])],
      [content |-> ("application/json" :> [schema |-> [type |-> "integer", format |-> "date"]])],
      [content |-> ("application/json" :> [schema |-> [format |-> "uuid"]])],
      [content |-> ("application/json" :> EmptyDict)],
      [required |-> TRUE, content |-> ("text/plain" :> [schema |-> [type |-> "string"]])],
      [required |-> TRUE] }

BodyDocuments ==
    {SingleOperation([summary |-> "Test endpoint", responses |-> <<OkResponse>>,
                      requestBody |-> b]) : b \in RawRequestBodies}

\* documents that vary the tags of their single operation: no tags key,
\* an empty array, one tag, two tags
RawTags == { << >>, <<"users">>, <<"users", "admin">> }

TagDocuments ==
    {SingleOperation(RawOperation(<< >>, <<OkResponse>>))}
    \cup {SingleOperation([summary |-> "Test endpoint", responses |-> <<OkResponse>>,
                           tags |-> t]) : t \in RawTags}

\* documents that vary the paths mapping: which paths, which keys under
\* each path, in which order, and where an invalid operation sits
GoodOperation == RawOperation(<< >>, <<OkResponse>>)

BadOperation ==
    RawOperation(<< [name |-> "itemId", in |-> "path"] >>,
                 << << <<"9", "9", "9">>, [description |-> "bad"]>> >>)

\* a parameter without name, a response under 999 and a body without type
BrokenOperation ==
    [parameters |-> << [in |-> "query"] >>,
     responses |-> << << <<"9", "9", "9">>, [description |-> "bad"]>> >>,
     requestBody |-> [content |-> ("application/json" :> EmptyDict)]]

SamplePaths ==
    { <<"/", "i", "t", "e", "m", "s", "/", "{", "i", "t", "e", "m", "I", "d", "}">>,
      <<"/", "u", "s", "e", "r", "s">>,
      <<"/">> }

SamplePathItems ==
    { << <<"get", GoodOperation>> >>,
      << <<"get", GoodOperation>>, <<"post", GoodOperation>> >>,
      << <<"post", GoodOperation>>, <<"get", GoodOperation>> >>,
      << <<"head", GoodOperation>>, <<"delete", GoodOperation>>,
         <<"options", GoodOperation>> >>,
      << <<"GET", GoodOperation>>, <<"put", GoodOperation>> >>,
      << <<"patch", BadOperation>> >>,
      << <<"get", GoodOperation>>, <<"post", BadOperation>> >>,
      << <<"put", BrokenOperation>> >>,
      << <<"head", BadOperation>>, <<"parameters", << >> >> >> }

PathsMappings ==
    {m \in SeqsUpTo(SamplePaths \X SamplePathItems, MaxPaths) : DistinctKeys(m)}

PathsDocuments == {Document(V30, m) : m \in PathsMappings}

\* ------------------------------------------------------------------------
\* Inputs of the generate_cli commands
\* ------------------------------------------------------------------------
\* a Python value that is no mapping: a list is [py_list |-> items], a
\* string is [py_str |-> text]
IsMapping(v) == "py_list" \notin DOMAIN v /\ "py_str" \notin DOMAIN v

TestPath == <<"/", "t", "e", "s", "t">>

\* the fixture of src/tests/test_main.py
TestDocument ==
    Document(V30, << <<TestPath,
        << <<"get", [operationId |-> "test_endpoint", summary |-> "Test endpoint",
                     responses |-> <<OkResponse>>]>> >> >> >>)

\* a response under the key "default"
DefaultDocument ==
    SingleOperation(RawOperation(<< >>,
        <<OkResponse, << <<"d", "e", "f", "a", "u", "l", "t">>, [description |-> "error"]>> >>))

\* parameters declared on the path item, shared by its operations
PathLevelDocument ==
    Document(V30, << <<TestPath,
        << <<"parameters", [py_list |-> << [name |-> "itemId", in |-> "query"] >>]>>,
           <<"get", GoodOperation>> >> >> >>)

SwaggerDocument == Document(<<"2", ".", "0">>, << >>)

UntitledDocument == [openapi |-> V30, info |-> EmptyDict, paths |-> << >>]

BadStatusDocument == SingleOperation(BadOperation)

CliDocuments ==
    {TestDocument, DefaultDocument, PathLevelDocument, SwaggerDocument,
     UntitledDocument, BadStatusDocument}

\* what the input file holds: text the decoder rejects, or the value decoded
FileContents ==
    {[decodable |-> FALSE]}
    \cup {[decodable |-> TRUE, value |-> [py_str |-> "invalid content"]]}
    \cup {[decodable |-> TRUE, value |-> d] : d \in CliDocuments}

SpecFilePaths ==
    { <<"s", ".", "y", "a", "m", "l">>,
      <<"s", ".", "y", "m", "l">>,
      <<"s", ".", "j", "s", "o", "n">>,
      <<"s", ".", "t", "x", "t">>,
      <<"y", "a", "m", "l">> }

\* what rendering cli_template.jinja2 does: text, the empty text, or an error
RenderOutcomes == {"text", "empty", "raises"}

\* what running openapi-python-client does: it generates the client
\* project, exits non-zero, or is not installed
ClientToolOutcomes == {"generated", "failed", "not_installed"}

CliEnvironments ==
    [program : {"main"},
     openapi_spec_path : SpecFilePaths,
     file_exists : BOOLEAN,
     content : FileContents,
     out_dir_exists : BOOLEAN,
     template_found : BOOLEAN,
     render : RenderOutcomes,
     client_tool : {"generated"}]
    \cup
    [program : {"app"},
     openapi_spec_path : SpecFilePaths,
     file_exists : BOOLEAN,
     content : FileContents,
     out_dir_exists : BOOLEAN,
     template_found : BOOLEAN,
     render : RenderOutcomes,
     client_tool : ClientToolOutcomes]

\* ------------------------------------------------------------------------
\* State
\* ------------------------------------------------------------------------
VARIABLES
    spec_data,    \* the decoded document the caller holds
    spec,         \* None, or the outcome of OpenAPISpec(**spec_data)
    operations,   \* None, or the outcome of extract_operations(spec_data)
    success,      \* None, or the last get_successful_response() call and its result
    assigned,     \* None, or the last attribute assignment tried on a record and its outcome
    env,          \* the arguments of a generate_cli run and the world around it
    pc,           \* the position of the generate_cli run
    fs,           \* the output directory
    output,       \* what click.echo has printed
    log,          \* what logger.error has logged
    exit_code     \* None while running, then the exit code of the command

vars == <<spec_data, spec, operations, success, assigned, env, pc, fs, output, log, exit_code>>

core_vars == <<spec_data, spec, operations, success, assigned>>

cli_vars == <<env, pc, fs, output, log, exit_code>>

\* the output directory: whether it exists, and what it holds
NoFiles == [out_dir |-> FALSE, cli_py |-> FALSE, pyproject |-> "absent",
            package |-> FALSE, init_files |-> FALSE]

\* the functions of src/main.py called as a library (src/test_parser.py)
Init ==
    /\ \/ spec_data \in VersionDocuments
       \/ spec_data \in PathDocuments
       \/ spec_data \in ParameterDocuments
       \/ spec_data \in SchemaDocuments
       \/ spec_data \in StatusDocuments
       \/ spec_data \in ResponseDocuments
       \/ spec_data \in BodyDocuments
       \/ spec_data \in TagDocuments
       \/ spec_data \in PathsDocuments
    /\ spec = None
    /\ operations = None
    /\ success = None
    /\ assigned = None
    /\ env = None
    /\ pc = "library"
    /\ fs = NoFiles
    /\ output = << >>
    /\ log = << >>
    /\ exit_code = None

\* spec = OpenAPISpec(**spec_data)
ValidateSpec ==
    /\ pc = "library"
    /\ spec = None
    /\ spec' = Some(OpenAPISpec(spec_data))
    /\ UNCHANGED <<spec_data, operations, success, assigned>>
    /\ UNCHANGED cli_vars

\* operations = extract_operations(spec_data)
ExtractOperations ==
    /\ pc = "library"
    /\ operations = None
    /\ operations' = Some(extract_operations(spec_data))
    /\ UNCHANGED <<spec_data, spec, success, assigned>>
    /\ UNCHANGED cli_vars

\* success_response = op.get_successful_response() for an extracted op
GetSuccessfulResponse ==
    /\ pc = "library"
    /\ operations # None
    /\ operations[1].ok
    /\ \E i \in 1..Len(operations[1].value) :
          success' = Some([index |-> i,
                           response |-> get_successful_response(operations[1].value[i])])
    /\ UNCHANGED <<spec_data, spec, operations, assigned>>
    /\ UNCHANGED cli_vars

Next == ValidateSpec \/ ExtractOperations \/ GetSuccessfulResponse

Spec == Init /\ [][Next]_vars

\* ------------------------------------------------------------------------
\* Assignment to the fields of the records an extraction has built
\* ------------------------------------------------------------------------
\* the records reachable from an Operation: itself, its parameters, its
\* responses, and the TypeSchema of each parameter, response and body
AssignTargets(op) ==
    {[model |-> "Operation", at |-> "self", i |-> 0]}
    \cup {[model |-> "Parameter", at |-> "path_parameters", i |-> i] :
             i \in 1..Len(op.path_parameters)}
    \cup {[model |-> "Parameter", at |-> "query_parameters", i |-> i] :
             i \in 1..Len(op.query_parameters)}
    \cup {[model |-> "OperationResponse", at |-> "responses", i |-> i] :
             i \in 1..Len(op.responses)}
    \cup {[model |-> "TypeSchema", at |-> "path_parameters", i |-> i] :
             i \in {n \in 1..Len(op.path_parameters) : op.path_parameters[n].schema_ # None}}
    \cup {[model |-> "TypeSchema", at |-> "query_parameters", i |-> i] :
             i \in {n \in 1..Len(op.query_parameters) : op.query_parameters[n].schema_ # None}}
    \cup {[model |-> "TypeSchema", at |-> "responses", i |-> i] :
             i \in {n \in 1..Len(op.responses) : op.responses[n][2].schema_ # None}}
    \cup {[model |-> "TypeSchema", at |-> "body_schema", i |-> 0] :
             i \in {n \in {0} : op.body_schema # None}}

\* the record a target names
TargetRecord(op, t) ==
    CASE t.model = "Operation" -> op
      [] t.model = "Parameter" -> op[t.at][t.i]
      [] t.model = "OperationResponse" -> op.responses[t.i][2]
      [] t.model = "TypeSchema" /\ t.at = "body_schema" -> op.body_schema[1]
      [] t.model = "TypeSchema" /\ t.at = "responses" -> op.responses[t.i][2].schema_[1]
      [] OTHER -> op[t.at][t.i].schema_[1]

\* the Operation once the record a target names holds new field values: the
\* holder keeps a reference to the instance, so it sees the assignment
WithTargetRecord(op, t, new) ==
    CASE t.model = "Operation" -> new
      [] t.model = "Parameter" -> [op EXCEPT ![t.at][t.i] = new]
      [] t.model = "OperationResponse" -> [op EXCEPT !.responses[t.i][2] = new]
      [] t.model = "TypeSchema" /\ t.at = "body_schema" -> [op EXCEPT !.body_schema = Some(new)]
      [] t.model = "TypeSchema" /\ t.at = "responses" ->
             [op EXCEPT !.responses[t.i][2].schema_ = Some(new)]
      [] OTHER -> [op EXCEPT ![t.at][t.i].schema_ = Some(new)]

\* a field every model has, and the fields a TypeSchema has besides
AssignedFields(model) ==
    IF model = "TypeSchema" THEN {"type", "format"}
    ELSE IF model = "OperationResponse" THEN {"description", "status_code"}
    ELSE {"description"}

\* the value assigned to a field
AssignedValue(field) ==
    CASE field = "type" -> "boolean"
      [] field = "format" -> Some("uuid")
      [] field = "status_code" -> <<"5", "0", "0">>
      [] OTHER -> "changed"

\* record.field = value on one record of an extracted Operation; one
\* assignment is followed per run
SetAttr ==
    /\ pc = "library"
    /\ operations # None
    /\ operations[1].ok
    /\ assigned = None
    /\ \E k \in 1..Len(operations[1].value) :
          \E t \in AssignTargets(operations[1].value[k]) :
              \E field \in AssignedFields(t.model) :
                  /\ assigned' = Some([op |-> k, target |-> t, field |-> field,
                                       ok |-> setattr(t.model,
                                                      TargetRecord(operations[1].value[k], t),
                                                      field, AssignedValue(field)).ok])
                  /\ operations' =
                        IF assigned'[1].ok
                        THEN [operations EXCEPT ![1].value[k] =
                                 WithTargetRecord(@, t,
                                     setattr(t.model, TargetRecord(@, t),
                                             field, AssignedValue(field)).value)]
                        ELSE operations
    /\ UNCHANGED <<spec_data, spec, success>>
    /\ UNCHANGED cli_vars

NextAssign == ExtractOperations \/ SetAttr

SpecAssign == Init /\ [][NextAssign]_vars

\* ------------------------------------------------------------------------
\* The generate_cli commands
\* ------------------------------------------------------------------------
InitCli ==
    /\ spec_data = None
    /\ spec = None
    /\ operations = None
    /\ success = None
    /\ assigned = None
    /\ env \in CliEnvironments
    /\ pc = "invoke"
    /\ fs = [NoFiles EXCEPT !.out_dir = env.out_dir_exists]
    /\ output = << >>
    /\ log = << >>
    /\ exit_code = None

\* the command returns, or an uncaught exception ends it, with this code
Exit(code) ==
    /\ pc' = "exited"
    /\ exit_code' = Some(code)

Echo(message) == output' = Append(output, message)

LogError(message) == log' = Append(log, message)

\* openapi_spec_path.endswith('.yaml') or ... ('.yml') or ... ('.json')
SupportedFormat(path) ==
    \/ EndsWith(path, <<".", "y", "a", "m", "l">>)
    \/ EndsWith(path, <<".", "y", "m", "l">>)
    \/ EndsWith(path, <<".", "j", "s", "o", "n">>)

\* click.Path(exists=True) on the first argument of either command
PathArgumentRejected ==
    /\ ~ env.file_exists
    /\ Echo("Error: Invalid value for 'OPENAPI_SPEC_PATH': Path does not exist.")
    /\ Exit(2)
    /\ UNCHANGED <<fs, log>>

\* src/main.py: argument parsing, then click.echo(f"Generating {output_path}")
main_Invoke ==
    /\ pc = "invoke"
    /\ env.program = "main"
    /\ \/ PathArgumentRejected
       \/ /\ env.file_exists
          /\ Echo("Generating")
          /\ pc' = "main_load"
          /\ UNCHANGED <<fs, log, exit_code>>
    /\ UNCHANGED <<env, spec_data, spec, operations, success, assigned>>

\* src/main.py: the first try block, which opens and decodes the file
main_Load ==
    /\ pc = "main_load"
    /\ IF SupportedFormat(env.openapi_spec_path) /\ env.content.decodable
       THEN /\ spec_data' = env.content.value
            /\ pc' = "main_validate"
            /\ UNCHANGED <<log, exit_code>>
       ELSE /\ LogError(IF SupportedFormat(env.openapi_spec_path)
                        THEN "Failed to load OpenAPI spec"
                        ELSE "Failed to load OpenAPI spec: Unsupported file format. Please provide a YAML or JSON file.")
            /\ Exit(0)
            /\ UNCHANGED spec_data
    /\ UNCHANGED <<env, spec, operations, success, assigned, fs, output>>

\* src/main.py: spec = OpenAPISpec(**spec_data), ValidationError caught
main_Validate ==
    /\ pc = "main_validate"
    /\ IF ~ IsMapping(spec_data)
       THEN /\ Exit(1)
            /\ UNCHANGED <<spec, log>>
       ELSE /\ spec' = Some(OpenAPISpec(spec_data))
            /\ IF spec'[1].ok
               THEN pc' = "main_extract" /\ UNCHANGED <<log, exit_code>>
               ELSE LogError("OpenAPI specification validation failed") /\ Exit(0)
    /\ UNCHANGED <<env, spec_data, operations, success, assigned, fs, output>>

\* src/main.py: operations = extract_operations(spec_data), then
\* package_name from spec_data['info']['title']; nothing is caught here
main_Extract ==
    /\ pc = "main_extract"
    /\ operations' = Some(extract_operations(spec_data))
    /\ IF ~ operations'[1].ok \/ "title" \notin DOMAIN spec_data.info
       THEN Exit(1)
       ELSE pc' = "main_template" /\ UNCHANGED exit_code
    /\ UNCHANGED <<env, spec_data, spec, success, assigned, fs, output, log>>

\* src/main.py: env.get_template('cli_template.jinja2')
main_Template ==
    /\ pc = "main_template"
    /\ IF env.template_found
       THEN pc' = "main_makedirs" /\ UNCHANGED <<log, exit_code>>
       ELSE LogError("Failed to load template") /\ Exit(0)
    /\ UNCHANGED <<env, spec_data, spec, operations, success, assigned, fs, output>>

\* src/main.py: os.makedirs(output_path, exist_ok=True)
main_Makedirs ==
    /\ pc = "main_makedirs"
    /\ fs' = [fs EXCEPT !.out_dir = TRUE]
    /\ pc' = "main_write"
    /\ UNCHANGED <<env, spec_data, spec, operations, success, assigned, output, log, exit_code>>

\* src/main.py: template.render(...) and the write of cli.py, in one try
main_Write ==
    /\ pc = "main_write"
    /\ IF env.render = "raises"
       THEN /\ LogError("Failed to generate CLI")
            /\ Exit(0)
            /\ UNCHANGED fs
       ELSE /\ fs' = [fs EXCEPT !.cli_py = TRUE]
            /\ pc' = "main_echo"
            /\ UNCHANGED <<log, exit_code>>
    /\ UNCHANGED <<env, spec_data, spec, operations, success, assigned, output>>

\* src/main.py: click.echo(f"CLI generated at {output_file}")
main_Echo ==
    /\ pc = "main_echo"
    /\ Echo("CLI generated at")
    /\ Exit(0)
    /\ UNCHANGED <<env, spec_data, spec, operations, success, assigned, fs, log>>

\* src/app/main.py: argument parsing
app_Invoke ==
    /\ pc = "invoke"
    /\ env.program = "app"
    /\ \/ PathArgumentRejected
       \/ /\ env.file_exists
          /\ pc' = "app_check_format"
          /\ UNCHANGED <<fs, output, log, exit_code>>
    /\ UNCHANGED <<env, spec_data, spec, operations, success, assigned>>

\* src/app/main.py: check_file_format(openapi_spec_path)
check_file_format ==
    /\ pc = "app_check_format"
    /\ IF ~ SupportedFormat(env.openapi_spec_path)
       THEN /\ Echo("Unsupported file format. Please provide a YAML or JSON file.")
            /\ Exit(1)
       ELSE /\ pc' = "app_makedirs"
            /\ UNCHANGED <<output, exit_code>>
    /\ UNCHANGED <<env, spec_data, spec, operations, success, assigned, fs, log>>

\* src/app/main.py: if not os.path.exists(output_path): os.makedirs(output_path)
app_Makedirs ==
    /\ pc = "app_makedirs"
    /\ fs' = [fs EXCEPT !.out_dir = TRUE]
    /\ pc' = "app_client"
    /\ UNCHANGED <<env, spec_data, spec, operations, success, assigned, output, log, exit_code>>

\* src/app/main.py: generate_python_client(openapi_spec_path, output_path)
generate_python_client ==
    /\ pc = "app_client"
    /\ CASE env.client_tool = "generated" ->
               /\ fs' = [fs EXCEPT !.package = TRUE, !.pyproject = "without_click"]
               /\ pc' = "app_package"
               /\ UNCHANGED <<log, exit_code>>
         [] env.client_tool = "failed" ->
               /\ LogError("Failed to generate client")
               /\ Exit(0)
               /\ UNCHANGED fs
         [] env.client_tool = "not_installed" ->
               /\ Exit(1)
               /\ UNCHANGED <<fs, log>>
    /\ UNCHANGED <<env, spec_data, spec, operations, success, assigned, output>>

\* src/app/main.py: update_pyproject_toml(output_path), then
\* initialize_package_directories(output_path)
app_Package ==
    /\ pc = "app_package"
    /\ IF ~ fs.package
       THEN /\ Exit(1)
            /\ fs' = [fs EXCEPT !.pyproject =
                         IF @ = "without_click" THEN "with_click" ELSE @]
       ELSE /\ fs' = [fs EXCEPT !.pyproject =
                         IF @ = "without_click" THEN "with_click" ELSE @,
                                !.init_files = TRUE]
            /\ pc' = "app_load"
            /\ UNCHANGED exit_code
    /\ UNCHANGED <<env, spec_data, spec, operations, success, assigned, output, log>>

\* src/app/main.py: spec = load_openapi_spec(openapi_spec_path)
load_openapi_spec ==
    /\ pc = "app_load"
    /\ IF ~ env.content.decodable
       THEN /\ LogError("Failed to load OpenAPI spec")
            /\ Exit(0)
            /\ UNCHANGED <<spec_data, spec>>
       ELSE /\ spec_data' = env.content.value
            /\ IF ~ IsMapping(env.content.value)
               THEN /\ Exit(1)
                    /\ UNCHANGED <<spec, log>>
               ELSE /\ spec' = Some(OpenAPISpec(env.content.value))
                    /\ IF spec'[1].ok
                       THEN pc' = "app_code" /\ UNCHANGED <<log, exit_code>>
                       ELSE /\ LogError("OpenAPI specification validation failed")
                            /\ Exit(0)
    /\ UNCHANGED <<env, operations, success, assigned, fs, output>>

\* the loop of generate_cli_code calls details.get(...) on every value of
\* every path item: it raises when one of them is no mapping
EveryPathItemValueIsMapping(paths) ==
    \A i \in 1..Len(paths) :
        \A j \in 1..Len(paths[i][2]) : IsMapping(paths[i][2][j][2])

\* src/app/main.py: cli_code = generate_cli_code(...), "if not cli_code: return"
generate_cli_code ==
    /\ pc = "app_code"
    /\ IF \/ ~ env.template_found
          \/ ~ EveryPathItemValueIsMapping(spec[1].value.paths)
          \/ env.render = "raises"
       THEN LogError("Failed to generate CLI code") /\ Exit(0)
       ELSE IF env.render = "empty"
            THEN Exit(0) /\ UNCHANGED log
            ELSE pc' = "app_write" /\ UNCHANGED <<log, exit_code>>
    /\ UNCHANGED <<env, spec_data, spec, operations, success, assigned, fs, output>>

\* src/app/main.py: the write of cli.py
app_Write ==
    /\ pc = "app_write"
    /\ fs' = [fs EXCEPT !.cli_py = TRUE]
    /\ pc' = "app_echo"
    /\ UNCHANGED <<env, spec_data, spec, operations, success, assigned, output, log, exit_code>>

\* src/app/main.py: click.echo(f"CLI generated at {cli_file_path}")
app_Echo ==
    /\ pc = "app_echo"
    /\ Echo("CLI generated at")
    /\ Exit(0)
    /\ UNCHANGED <<env, spec_data, spec, operations, success, assigned, fs, log>>

NextCli ==
    \/ main_Invoke
    \/ main_Load
    \/ main_Validate
    \/ main_Extract
    \/ main_Template
    \/ main_Makedirs
    \/ main_Write
    \/ main_Echo
    \/ app_Invoke
    \/ check_file_format
    \/ app_Makedirs
    \/ generate_python_client
    \/ app_Package
    \/ load_openapi_spec
    \/ generate_cli_code
    \/ app_Write
    \/ app_Echo

SpecCli == InitCli /\ [][NextCli]_vars

\* ------------------------------------------------------------------------
\* Properties
\* ------------------------------------------------------------------------
Extracted == pc = "library" /\ operations # None

ExtractedOk == Extracted /\ operations[1].ok

ExtractionFailed == Extracted /\ ~ operations[1].ok

Ops == operations[1].value

RawPaths == spec_data.paths

\* the positions <<i, j>> of the raw paths mapping that hold an operation
\* under one of the five extracted verbs
ExtractedPositions ==
    UNION {{<<i, j>> : j \in {n \in 1..Len(RawPaths[i][2]) :
                RawPaths[i][2][n][1] \in {"get", "post", "put", "delete", "patch"}}} :
           i \in 1..Len(RawPaths)}

\* the position of the raw operation an extracted Operation was built from
PositionOf(op) ==
    CHOOSE pos \in ExtractedPositions :
        /\ RawPaths[pos[1]][1] = op.path
        /\ RawPaths[pos[1]][2][pos[2]][1] = op.method

RawOperationAt(pos) == RawPaths[pos[1]][2][pos[2]][2]

\* position a comes before position b in document order
Before(a, b) == a[1] < b[1] \/ (a[1] = b[1] /\ a[2] < b[2])

IdentifierChars == LowerChars \cup UpperChars \cup DigitChars \cup {"_"}

IsIdentifier(name) ==
    /\ name # << >>
    /\ \A i \in 1..Len(name) : name[i] \in IdentifierChars
    /\ name[1] \notin DigitChars

\* C1: every Operation returned by extract_operations has a snake_case_name
\* that is a valid bare identifier: non-empty, only letters, digits and
\* underscore, not starting with a digit.
C1_NameIsIdentifier ==
    ExtractedOk => \A k \in 1..Len(Ops) : IsIdentifier(Ops[k].snake_case_name)

\* C2: for a mapping with a string openapi, a mapping info and a mapping
\* paths, OpenAPISpec construction succeeds exactly when openapi starts with
\* "3."; otherwise it fails with the validation error "Only OpenAPI 3.x
\* specifications are supported." and produces no document.
C2_VersionGate ==
    (pc = "library" /\ spec # None) =>
        LET v == spec_data.openapi
            is3 == Len(v) >= 2 /\ v[1] = "3" /\ v[2] = "."
        IN  /\ spec[1].ok <=> is3
            /\ spec[1].ok => spec[1].value.openapi = v
            /\ ~ spec[1].ok =>
                  /\ spec[1].error = "ValidationError"
                  /\ spec[1].msg = "Only OpenAPI 3.x specifications are supported."
                  /\ "value" \notin DOMAIN spec[1]

C2_Witness ==
    /\ pc = "library"
    /\ spec # None
    /\ ~ spec[1].ok
    /\ spec_data.openapi = <<"2", ".", "0">>

\* some operation of the document, under an extracted verb, fails validation
SomeOperationInvalid ==
    \E pos \in ExtractedPositions :
        ~ ExtractOperation(RawPaths[pos[1]][1], RawPaths[pos[1]][2][pos[2]][1],
                           RawOperationAt(pos)).ok

\* some operation of the document, under an extracted verb, is valid and
\* comes before an invalid one
ValidBeforeInvalid ==
    \E good, bad \in ExtractedPositions :
        /\ Before(good, bad)
        /\ ExtractOperation(RawPaths[good[1]][1], RawPaths[good[1]][2][good[2]][1],
                            RawOperationAt(good)).ok
        /\ ~ ExtractOperation(RawPaths[bad[1]][1], RawPaths[bad[1]][2][bad[2]][1],
                              RawOperationAt(bad)).ok

\* C3: extract_operations is all-or-nothing: when any operation of the
\* document fails validation, the call raises and the caller receives no
\* Operation list, whatever number of valid operations came before.
C3_AllOrNothing ==
    (Extracted /\ SomeOperationInvalid) =>
        /\ ~ operations[1].ok
        /\ "value" \notin DOMAIN operations[1]

C3_Witness == ExtractionFailed /\ ValidBeforeInvalid

IsPathParameter(p) == p["in"] = "path"

IsQueryParameter(p) == p["in"] = "query"

\* C4: a raw parameter with in = path lands in path_parameters only, one
\* with in = query in query_parameters only, one with in = header or cookie
\* in neither although it is validated; both sequences keep the raw order.
C4_ParameterPartition ==
    /\ ExtractedOk =>
          \A k \in 1..Len(Ops) :
              LET raw == Get(RawOperationAt(PositionOf(Ops[k])), "parameters", << >>)
                  inPath == SelectSeq(raw, IsPathParameter)
                  inQuery == SelectSeq(raw, IsQueryParameter)
              IN  /\ \A i \in 1..Len(raw) : NormalizeParameter(raw[i]).ok
                  /\ Ops[k].path_parameters =
                        [i \in 1..Len(inPath) |-> NormalizeParameter(inPath[i]).value]
                  /\ Ops[k].query_parameters =
                        [i \in 1..Len(inQuery) |-> NormalizeParameter(inQuery[i]).value]
                  /\ \A i \in 1..Len(Ops[k].path_parameters) :
                        Ops[k].path_parameters[i].in_ = "path"
                  /\ \A i \in 1..Len(Ops[k].query_parameters) :
                        Ops[k].query_parameters[i].in_ = "query"
    /\ Extracted =>
          \A pos \in ExtractedPositions :
              LET raw == Get(RawOperationAt(pos), "parameters", << >>)
              IN  (\E i \in 1..Len(raw) : ~ NormalizeParameter(raw[i]).ok)
                      => ~ operations[1].ok

C4_Witness ==
    /\ ExtractedOk
    /\ \E k \in 1..Len(Ops) :
          LET raw == Get(RawOperationAt(PositionOf(Ops[k])), "parameters", << >>)
          IN  /\ Len(raw) = 3
              /\ raw[1]["in"] = "query"
              /\ raw[2]["in"] \in {"header", "cookie"}
              /\ raw[3]["in"] = "path"
              /\ Len(Ops[k].path_parameters) = 1
              /\ Len(Ops[k].query_parameters) = 1

\* C5: the returned sequence has exactly one Operation per (path, method)
\* pair whose method key is get, post, put, delete or patch, none for any
\* other key, ordered by path and then by method in document order.
C5_OnePerPairInOrder ==
    ExtractedOk =>
        /\ \A k \in 1..Len(Ops) :
              \E pos \in ExtractedPositions :
                  /\ RawPaths[pos[1]][1] = Ops[k].path
                  /\ RawPaths[pos[1]][2][pos[2]][1] = Ops[k].method
        /\ \A pos \in ExtractedPositions :
              Cardinality({k \in 1..Len(Ops) :
                  /\ RawPaths[pos[1]][1] = Ops[k].path
                  /\ RawPaths[pos[1]][2][pos[2]][1] = Ops[k].method}) = 1
        /\ \A k, l \in 1..Len(Ops) :
              k < l => Before(PositionOf(Ops[k]), PositionOf(Ops[l]))

C5_Witness ==
    /\ ExtractedOk
    /\ Len(Ops) = 3
    /\ Len(RawPaths) = 2
    /\ Ops[1].method = "delete"
    /\ Ops[2].method = "post"
    /\ Ops[3].method = "get"
    /\ \E j \in 1..Len(RawPaths[1][2]) : RawPaths[1][2][j][1] = "head"

\* the status-code keys of the operations under an extracted verb
StatusKeysAt(pos) ==
    LET raw == Get(RawOperationAt(pos), "responses", << >>)
    IN  {raw[i][1] : i \in 1..Len(raw)}

InStatusRange(key) ==
    LET code == ParseInt(key)
    IN  code.ok /\ code.value >= 100 /\ code.value <= 599

\* the status-code key is the first defect of the operation at pos: its
\* parameters are valid and so are the schemas of its responses
StatusIsFirstDefect(pos) ==
    LET op == RawOperationAt(pos)
        params == Get(op, "parameters", << >>)
        raw == Get(op, "responses", << >>)
    IN  /\ \A i \in 1..Len(params) : NormalizeParameter(params[i]).ok
        /\ \A i \in 1..Len(raw) : NormalizeResponse(<<"2", "0", "0">>, raw[i][2]).ok
        /\ \A other \in ExtractedPositions :
              Before(other, pos) =>
                  ExtractOperation(RawPaths[other[1]][1], RawPaths[other[1]][2][other[2]][1],
                                   RawOperationAt(other)).ok

\* C6: a response key that is not an integer in [100, 599] makes extraction
\* fail, with the status-code validation error when nothing fails before it;
\* no Operation is returned and no extracted Operation stores a response
\* under such a key.
C6_StatusCodeRange ==
    /\ Extracted =>
          \A pos \in ExtractedPositions :
              (\E key \in StatusKeysAt(pos) : ~ InStatusRange(key))
                  => /\ ~ operations[1].ok
                     /\ "value" \notin DOMAIN operations[1]
                     /\ StatusIsFirstDefect(pos) =>
                           /\ operations[1].error = "ValidationError"
                           /\ operations[1].msg =
                                 "Status code must be a valid HTTP status code (100-599)"
    /\ ExtractedOk =>
          \A k \in 1..Len(Ops) :
              /\ Len(Ops[k].responses) =
                    Len(Get(RawOperationAt(PositionOf(Ops[k])), "responses", << >>))
              /\ \A i \in 1..Len(Ops[k].responses) :
                    /\ InStatusRange(Ops[k].responses[i][1])
                    /\ Ops[k].responses[i][2].status_code = Ops[k].responses[i][1]

C6_Witness ==
    /\ ExtractionFailed
    /\ operations[1].msg = "Status code must be a valid HTTP status code (100-599)"
    /\ \E pos \in ExtractedPositions : <<"9", "9", "9">> \in StatusKeysAt(pos)

\* the formats registered per type (spec, section 3)
RegisteredFormats(t) ==
    IF t = "string"
    THEN {"date", "date-time", "password", "byte", "binary", "email", "uuid",
          "uri", "hostname"}
    ELSE IF t = "integer" THEN {"int32", "int64"}
    ELSE IF t = "number" THEN {"float", "double"}
    ELSE {}

HasRegisteredFormats(t) == t \in {"string", "integer", "number"}

\* the document has one operation with one query parameter
OneParameter ==
    /\ Len(RawPaths) = 1
    /\ Len(RawPaths[1][2]) = 1
    /\ RawPaths[1][2][1][1] = "get"
    /\ LET raw == Get(RawPaths[1][2][1][2], "parameters", << >>)
       IN  /\ Len(raw) = 1
           /\ {"name", "in"} \subseteq DOMAIN raw[1]
           /\ raw[1]["in"] = "query"

\* the raw schema of that parameter
TheSchema == Get(RawPaths[1][2][1][2].parameters[1], "schema", EmptyDict)

\* C7: format validation depends only on (type, format): with a format and
\* a resolved type of string, integer or number, the schema is rejected iff
\* the format is not registered for the type; a type without registered
\* formats accepts any format; an absent format is accepted.
C7_FormatByType ==
    (Extracted /\ OneParameter) =>
        LET t == Get(TheSchema, "type", "string")
            rejected == /\ "format" \in DOMAIN TheSchema
                        /\ HasRegisteredFormats(t)
                        /\ TheSchema.format \notin RegisteredFormats(t)
            formatError == /\ ~ operations[1].ok
                           /\ operations[1].msg = "Invalid format for type"
        IN  t \in {"string", "number", "integer", "boolean", "array", "object", "null"} =>
                /\ formatError <=> rejected
                /\ (t # "null" /\ ~ rejected) =>
                      /\ operations[1].ok
                      /\ Ops[1].query_parameters[1].schema_[1].format = GetOpt(TheSchema, "format")
                      /\ Ops[1].query_parameters[1].schema_[1].type = t

C7_Witness ==
    /\ ExtractionFailed
    /\ OneParameter
    /\ TheSchema = [type |-> "string", format |-> "int32"]
    /\ operations[1].msg = "Invalid format for type"

\* the first response of op, in insertion order, whose key starts with "2"
ExpectedSuccessful(op) ==
    LET hits == {i \in 1..Len(op.responses) :
                    op.responses[i][1] # << >> /\ op.responses[i][1][1] = "2"}
    IN  IF hits = {} THEN None
        ELSE Some(op.responses[CHOOSE i \in hits : \A j \in hits : i <= j][2])

C8_FirstSuccessful ==
    (pc = "library" /\ success # None) =>
        success[1].response = ExpectedSuccessful(Ops[success[1].index])

C8_Unchanged == success' # success => operations' = operations

\* C8: get_successful_response returns None when no key of responses starts
\* with "2", otherwise the response under the first such key in insertion
\* order; the call leaves the Operation as it was.
C8_SuccessfulResponse == [] C8_FirstSuccessful /\ [][C8_Unchanged]_vars

C8_Witness ==
    /\ pc = "library"
    /\ success # None
    /\ LET op == Ops[success[1].index]
       IN  /\ Len(op.responses) = 2
           /\ op.responses[1][1] = <<"2", "0", "1">>
           /\ op.responses[2][1] = <<"2", "0", "0">>
           /\ success[1].response = Some(op.responses[1][2])

\* C9: every Parameter built by extraction has a non-empty name: a raw
\* parameter without name, or with the empty name, makes extraction fail.
C9_ParameterNameNonEmpty ==
    ExtractedOk =>
        \A k \in 1..Len(Ops) :
            /\ \A i \in 1..Len(Ops[k].path_parameters) :
                  Ops[k].path_parameters[i].name # ""
            /\ \A i \in 1..Len(Ops[k].query_parameters) :
                  Ops[k].query_parameters[i].name # ""

\* a responses key the OpenAPI 3 Responses Object allows: "default" or a
\* three-digit status code
IsResponsesKey(key) ==
    \/ key = <<"d", "e", "f", "a", "u", "l", "t">>
    \/ /\ Len(key) = 3
       /\ \A i \in 1..3 : key[i] \in DigitChars
       /\ key[1] \in {"1", "2", "3", "4", "5"}

IsParameterObject(p) ==
    /\ {"name", "in"} \subseteq DOMAIN p
    /\ p.name # ""
    /\ p["in"] \in {"path", "query", "header", "cookie"}

IsOperationObject(op) ==
    /\ IsMapping(op)
    /\ "responses" \in DOMAIN op
    /\ \A i \in 1..Len(op.responses) : IsResponsesKey(op.responses[i][1])
    /\ \A i \in 1..Len(Get(op, "parameters", << >>)) : IsParameterObject(op.parameters[i])

IsPathItemEntry(entry) ==
    \/ /\ entry[1] \in {"get", "put", "post", "delete", "options", "head", "patch", "trace"}
       /\ IsOperationObject(entry[2])
    \/ /\ entry[1] = "parameters"
       /\ "py_list" \in DOMAIN entry[2]
       /\ \A i \in 1..Len(entry[2].py_list) : IsParameterObject(entry[2].py_list[i])

\* the decoded value is an OpenAPI 3.x document, as far as the model
\* describes documents: version 3.x, a titled info, paths that start with
\* "/" and hold operations and path-level parameters
IsOpenAPI3Document(doc) ==
    /\ IsMapping(doc)
    /\ {"openapi", "info", "paths"} \subseteq DOMAIN doc
    /\ Len(doc.openapi) >= 2 /\ doc.openapi[1] = "3" /\ doc.openapi[2] = "."
    /\ "title" \in DOMAIN doc.info
    /\ \A i \in 1..Len(doc.paths) :
          /\ doc.paths[i][1] # << >>
          /\ doc.paths[i][1][1] = "/"
          /\ \A j \in 1..Len(doc.paths[i][2]) : IsPathItemEntry(doc.paths[i][2][j])

\* a run on an existing .yaml, .yml or .json file that holds a valid
\* document, with a template that is found and renders, and with the client
\* generator working
WellFormedRun ==
    /\ env.file_exists
    /\ SupportedFormat(env.openapi_spec_path)
    /\ env.content.decodable
    /\ IsOpenAPI3Document(env.content.value)
    /\ env.template_found
    /\ env.render = "text"
    /\ env.client_tool = "generated"

Printed(message) == \E i \in 1..Len(output) : output[i] = message

\* C10: every run of generate_cli on an existing .yaml or .json file holding
\* a valid OpenAPI 3.x document, with the template present, ends with exit
\* code 0, the output directory existing, cli.py written in it and 'CLI
\* generated at' printed; the message is printed only after cli.py is written.
C10_GenerateCliSucceeds ==
    /\ Printed("CLI generated at") => fs.cli_py
    /\ (pc = "exited" /\ WellFormedRun) =>
          /\ exit_code = Some(0)
          /\ fs.out_dir
          /\ fs.cli_py
          /\ Printed("CLI generated at")

\* a run on an existing file whose name ends in none of .yaml, .yml, .json
UnsupportedFormatRun ==
    /\ pc # "library"
    /\ env.file_exists
    /\ ~ SupportedFormat(env.openapi_spec_path)

\* nothing was handed off: the output directory is as it was found, the
\* client generator has left nothing, no document was decoded or validated
\* and no cli.py exists
NothingHandedOff ==
    /\ fs = [NoFiles EXCEPT !.out_dir = env.out_dir_exists]
    /\ spec_data = None
    /\ spec = None
    /\ operations = None

\* C11: a run of generate_cli on an existing file whose path does not end in
\* .yaml, .yml or .json hands nothing off (no output directory created, no
\* client generated, no document decoded or validated, no cli.py), and it
\* ends with 'Unsupported file format' printed and exit code 1.
C11_UnsupportedFormatRejected ==
    UnsupportedFormatRun =>
        /\ NothingHandedOff
        /\ pc = "exited" =>
              /\ Printed("Unsupported file format. Please provide a YAML or JSON file.")
              /\ exit_code = Some(1)

\* the raw schema fragment has no type key
NoType(fragment) == "type" \notin DOMAIN fragment

\* the TypeSchema is present and of type "string"
IsStringSchema(schema_) == schema_ # None /\ schema_[1].type = "string"

\* the Parameter built from a raw parameter whose schema has no type
ParameterTypeDefaulted(raw, params) ==
    \A i \in 1..Len(params) :
        \A j \in 1..Len(raw) :
            (/\ {"name", "in"} \subseteq DOMAIN raw[j]
             /\ raw[j].name = params[i].name
             /\ raw[j]["in"] = params[i].in_
             /\ NoType(Get(raw[j], "schema", EmptyDict)))
                => IsStringSchema(params[i].schema_) /\ params[i].type = "string"

\* the OperationResponse built from a raw response whose first content
\* type has a schema without type
ResponseTypeDefaulted(raw, responses) ==
    \A i \in 1..Len(responses) :
        \A j \in 1..Len(raw) :
            (/\ raw[j][1] = responses[i][1]
             /\ Get(raw[j][2], "content", << >>) # << >>
             /\ NoType(Get(raw[j][2].content[1][2], "schema", EmptyDict)))
                => IsStringSchema(responses[i][2].schema_)

\* the body schema built from an application/json body without type
BodyTypeDefaulted(raw, op) ==
    LET body_content == Get(Get(raw, "requestBody", EmptyDict), "content", EmptyDict)
    IN  (/\ "application/json" \in DOMAIN body_content
         /\ NoType(Get(body_content["application/json"], "schema", EmptyDict)))
            => IsStringSchema(op.body_schema)

\* C12: a raw schema fragment without type key (also an absent or empty
\* schema) never makes extraction fail for its missing type, and the
\* TypeSchema built from it, for a parameter, for the first content type
\* of a response or for the application/json request body, has type
\* "string".
C12_MissingTypeIsString ==
    /\ ExtractionFailed => operations[1].msg # "type: Field required"
    /\ ExtractedOk =>
          \A k \in 1..Len(Ops) :
              LET raw == RawOperationAt(PositionOf(Ops[k]))
              IN  /\ ParameterTypeDefaulted(Get(raw, "parameters", << >>),
                                            Ops[k].path_parameters \o Ops[k].query_parameters)
                  /\ ResponseTypeDefaulted(Get(raw, "responses", << >>), Ops[k].responses)
                  /\ BodyTypeDefaulted(raw, Ops[k])

\* C13: the tags of an extracted Operation are the raw operation's tags
\* array when it is present and non-empty and ["default"] otherwise, also
\* when the array is present but empty; no extracted Operation has an empty
\* tag list.
C13_TagsOrDefault ==
    ExtractedOk =>
        \A k \in 1..Len(Ops) :
            LET raw == RawOperationAt(PositionOf(Ops[k]))
            IN  /\ Ops[k].tag = IF "tags" \in DOMAIN raw /\ raw.tags # << >>
                                THEN raw.tags
                                ELSE <<"default">>
                /\ Ops[k].tag # << >>

\* the raw parameter a Parameter was normalized from
RawParameterOf(raw, param) ==
    CHOOSE j \in 1..Len(raw) :
        /\ {"name", "in"} \subseteq DOMAIN raw[j]
        /\ raw[j].name = param.name
        /\ raw[j]["in"] = param.in_

\* the default the parameter object supplies directly, else its schema's
ExpectedDefault(raw_param) ==
    IF "default" \in DOMAIN raw_param
    THEN Some(raw_param.default)
    ELSE GetOpt(Get(raw_param, "schema", EmptyDict), "default")

\* C14: the type of a normalized Parameter is its resolved schema's type,
\* and its default is the raw parameter object's own default when it has
\* one and the schema's default otherwise.
C14_ParameterDefaultPrecedence ==
    ExtractedOk =>
        \A k \in 1..Len(Ops) :
            LET raw == Get(RawOperationAt(PositionOf(Ops[k])), "parameters", << >>)
                params == Ops[k].path_parameters \o Ops[k].query_parameters
            IN  \A i \in 1..Len(params) :
                    /\ params[i].type = params[i].schema_[1].type
                    /\ params[i].default = ExpectedDefault(raw[RawParameterOf(raw, params[i])])

\* C15: every TypeSchema, Parameter, OperationResponse and Operation is
\* immutable once built: an assignment to a field of the record fails and
\* leaves every record of the extraction as it was.
C15_RecordsImmutable ==
    [][assigned' # assigned =>
          /\ ~ assigned'[1].ok
          /\ operations' = operations]_vars

====
